---- MODULE Spec2Model ----
(***************************************************************************)
(* A model of hmmpy (src/hmmpy/hmm.py): the HiddenMarkovModel base class   *)
(* and its DiscreteHiddenMarkovModel subclass, as a state machine over one *)
(* model object.                                                           *)
(*                                                                         *)
(* Numbers.  numpy float64 values are modelled as exact extended rationals *)
(* <<n, d>>: d > 0 and gcd(n, d) = 1 for a finite value, <<1, 0>> for      *)
(* +inf, <<-1, 0>> for -inf and <<0, 0>> for NaN, with IEEE-754 rules for  *)
(* the special values (1/0 = inf, 0/0 = NaN, 0*inf = NaN, NaN absorbing).  *)
(* Rounding is not modelled.                                               *)
(*                                                                         *)
(* States and symbols are the integers 0..M-1 and 0..K-1, so that a state  *)
(* (symbol) and its id coincide, as in the repository's tests.             *)
(***************************************************************************)
EXTENDS Integers, Sequences, FiniteSets, TLC

(***************************************************************************)
(* Bounds of the model.                                                    *)
(***************************************************************************)
\* longest observation sequence handed to any operation
MaxLen == 2
\* largest batch (number of sequences) handed to baum_welch
MaxBatch == 2
\* number of API calls made on one model object after its construction
MaxCalls == 2
\* the largest iteration count handed to reestimate
MaxIterations == 2

(***************************************************************************)
(* Extended rational arithmetic (numpy float64, exact).                    *)
(***************************************************************************)
AbsInt(n) == IF n < 0 THEN -n ELSE n

SgnInt(n) == IF n < 0 THEN -1 ELSE IF n > 0 THEN 1 ELSE 0

RECURSIVE GCD(_, _)
GCD(a, b) == IF b = 0 THEN a ELSE GCD(b, a % b)

\* the value n/d in canonical form
Rat(n, d) ==
    IF d = 0 THEN <<SgnInt(n), 0>>
    ELSE LET g == GCD(AbsInt(n), AbsInt(d))
             s == IF d < 0 THEN -1 ELSE 1
         IN  <<(s * n) \div g, (s * d) \div g>>

Zero == <<0, 1>>
One == <<1, 1>>
NaN == <<0, 0>>
PosInf == <<1, 0>>
NegInf == <<-1, 0>>

IsNaN(x) == x = NaN
IsFinite(x) == x[2] # 0
IsInf(x) == x[2] = 0 /\ x[1] # 0

\* x + y
Add(x, y) ==
    IF IsNaN(x) \/ IsNaN(y) THEN NaN
    ELSE IF IsInf(x) /\ IsInf(y) THEN (IF x = y THEN x ELSE NaN)
    ELSE IF IsInf(x) THEN x
    ELSE IF IsInf(y) THEN y
    ELSE Rat(x[1] * y[2] + y[1] * x[2], x[2] * y[2])

\* -x
Neg(x) == <<-x[1], x[2]>>

\* x - y
Sub(x, y) == Add(x, Neg(y))

\* x * y  (0 * inf = NaN, NaN absorbing)
Mul(x, y) == Rat(x[1] * y[1], x[2] * y[2])

\* np.reciprocal(x): 1/0 = +inf, 1/inf = 0, 1/NaN = NaN
Recip(x) ==
    IF x[2] = 0 THEN (IF x[1] = 0 THEN NaN ELSE Zero)
    ELSE Rat(x[2], x[1])

\* x / y  (0/0 = NaN, x/0 = +-inf)
Div(x, y) == Mul(x, Recip(y))

\* x < y (false when either is NaN)
Less(x, y) == x[1] * y[2] < y[1] * x[2]

\* x <= y (false when either is NaN)
Leq(x, y) == ~IsNaN(x) /\ ~IsNaN(y) /\ x[1] * y[2] <= y[1] * x[2]

\* np.sum over f[0], ..., f[n-1] (0.0 for n = 0)
RECURSIVE SumTo(_, _)
SumTo(f, n) == IF n = 0 THEN Zero ELSE Add(SumTo(f, n - 1), f[n - 1])

\* np.sum(v) of a vector with domain 0..n-1
SumVec(v) == SumTo(v, Cardinality(DOMAIN v))

(***************************************************************************)
(* The user's callbacks.  A callback is named; the model object stores the *)
(* name and evaluates it on demand, as the adapters do.                    *)
(***************************************************************************)
\* transition_probability(x, y) of the user
TransitionCallback(name, x, y) ==
    CASE name = "uniform" -> One
      [] name = "upper" -> IF x <= y THEN One ELSE Zero
      [] name = "deadrow" -> IF x = 0 THEN Zero ELSE One

\* emission_probability(z, x) of the user
EmissionCallback(name, z, x) ==
    CASE name = "diag" -> IF z = x THEN Rat(2, 1) ELSE One
      [] name = "exclusive" -> IF z = x THEN One ELSE Zero

\* initial_probability(x) of the user, for a model of M states
InitialCallback(name, M, x) ==
    CASE name = "uniform" -> Rat(1, M)
      [] name = "first" -> IF x = 0 THEN One ELSE Zero

(***************************************************************************)
(* Adapters and construction.                                              *)
(***************************************************************************)
Ids(n) == 0 .. (n - 1)

\* HiddenMarkovModel.__init__: P from the callback, each row divided by its sum
BuildP(name, M) ==
    LET raw == [x \in Ids(M) |-> [y \in Ids(M) |-> TransitionCallback(name, x, y)]]
        sumP == [x \in Ids(M) |-> SumVec(raw[x])]
    IN  [x \in Ids(M) |-> [y \in Ids(M) |-> Div(Mul(raw[x][y], One), sumP[x])]]

\* DiscreteEmissionProbability.__init__: the K x M table, each column divided by its sum
BuildB(name, K, M) ==
    LET raw == [k \in Ids(K) |-> [s \in Ids(M) |-> EmissionCallback(name, k, s)]]
        col == [s \in Ids(M) |-> SumVec([k \in Ids(K) |-> raw[k][s]])]
    IN  [k \in Ids(K) |-> [s \in Ids(M) |-> Div(raw[k][s], col[s])]]

\* evaluate_initial_probabilities: the callback over all state ids
evaluate_initial_probabilities(name, M) == [s \in Ids(M) |-> InitialCallback(name, M, s)]

\* emission_probability.eval of one observation in one state:
\* DiscreteEmissionProbability reads its table, the others their callback
EvalEmission(kind, name, b, o, s) ==
    IF kind = "discrete" THEN b[o][s] ELSE EmissionCallback(name, o, s)

\* evaluate_emission_probabilities: l[n][s] for the sequence z (z[n+1] is step n)
evaluate_emission_probabilities(kind, name, b, z, M) ==
    [n \in Ids(Len(z)) |-> [s \in Ids(M) |-> EvalEmission(kind, name, b, z[n + 1], s)]]

(***************************************************************************)
(* Forward, backward and posterior passes.                                 *)
(***************************************************************************)
\* one step of the scaled forward recurrence from the raw row
ScaleRow(raw, M) ==
    LET cn == Recip(SumVec(raw))
    IN  [c |-> cn, alpha |-> [s \in Ids(M) |-> Mul(raw[s], cn)]]

RECURSIVE ForwardAt(_, _, _, _, _)
ForwardAt(n, P, l, pi, M) ==
    IF n = 0
    THEN ScaleRow([s \in Ids(M) |-> Mul(l[0][s], pi[s])], M)
    ELSE LET a == ForwardAt(n - 1, P, l, pi, M).alpha
         IN  ScaleRow([s \in Ids(M) |->
                 Mul(SumVec([t \in Ids(M) |-> Mul(a[t], P[t][s])]), l[n][s])], M)

\* forward_algorithm_internals: the scaling vector c and the table alpha
forward_algorithm_internals(N, P, l, pi, M) ==
    LET rows == [n \in Ids(N) |-> ForwardAt(n, P, l, pi, M)]
    IN  [c |-> [n \in Ids(N) |-> rows[n].c],
         alpha |-> [n \in Ids(N) |-> rows[n].alpha]]

\* backward_algorithm_internals reads c[n] for n = N-2 .. 0: an IndexError
\* when c is shorter than that
BackwardIndexError(N, c) == N >= 2 /\ (N - 2) \notin DOMAIN c

RECURSIVE BackwardAt(_, _, _, _, _, _)
BackwardAt(n, N, P, l, c, M) ==
    IF n = N - 1
    THEN [s \in Ids(M) |-> One]
    ELSE LET nxt == BackwardAt(n + 1, N, P, l, c, M)
         IN  [s \in Ids(M) |->
                Mul(SumVec([t \in Ids(M) |-> Mul(Mul(P[s][t], l[n + 1][t]), nxt[t])]),
                    c[n])]

\* backward_algorithm_internals: the table beta
backward_algorithm_internals(N, P, l, c, M) ==
    [n \in Ids(N) |-> BackwardAt(n, N, P, l, c, M)]

\* calculate_gamma: alpha * beta, each row divided by its sum
calculate_gamma(alpha, beta, M) ==
    [n \in DOMAIN alpha |->
        LET prod == [s \in Ids(M) |-> Mul(alpha[n][s], beta[n][s])]
            tot == SumVec(prod)
        IN  [s \in Ids(M) |-> Div(prod[s], tot)]]

\* a calculate_ksi that reads beta at step n instead of step n + 1
calculate_ksi_same_step(N, P, l, alpha, beta, M) ==
    [n \in Ids(N - 1) |->
        LET raw == [s \in Ids(M) |-> [t \in Ids(M) |->
                       Mul(Mul(Mul(P[s][t], l[n + 1][t]), beta[n][t]), alpha[n][s])]]
            tot == SumVec([s \in Ids(M) |-> SumVec(raw[s])])
        IN  [s \in Ids(M) |-> [t \in Ids(M) |-> Div(raw[s][t], tot)]]]

\* calculate_ksi: N-1 slices, each divided by its total
calculate_ksi(N, P, l, alpha, beta, M) ==
    [n \in Ids(N - 1) |->
        LET raw == [s \in Ids(M) |-> [t \in Ids(M) |->
                       Mul(Mul(Mul(P[s][t], l[n + 1][t]), beta[n + 1][t]), alpha[n][s])]]
            tot == SumVec([s \in Ids(M) |-> SumVec(raw[s])])
        IN  [s \in Ids(M) |-> [t \in Ids(M) |-> Div(raw[s][t], tot)]]]

(***************************************************************************)
(* Viterbi decoding in the log domain.  A log-domain number is represented *)
(* by the non-negative rational whose logarithm it is (-inf by 0): log is  *)
(* an order isomorphism that carries products to sums.                     *)
(***************************************************************************)
\* ma.log(x).filled(-np.inf): the mask covers x <= 0 and every non-finite result
MaskedLog(x) == IF IsFinite(x) /\ Less(Zero, x) THEN x ELSE Zero

\* the sum of two log-domain numbers
LogAdd(u, v) == Mul(u, v)

\* np.argmax(v): the first index holding the largest entry
ArgMax(v, M) ==
    CHOOSE i \in Ids(M) :
        \A j \in Ids(M) : IF j < i THEN Less(v[j], v[i]) ELSE Leq(v[j], v[i])

\* np.max(v)
MaxVec(v, M) == v[ArgMax(v, M)]

\* a recurrence that reads the transition matrix transposed
RECURSIVE ViterbiAtTransposed(_, _, _, _, _)
ViterbiAtTransposed(n, P, pi, l, M) ==
    IF n = 0
    THEN [delta |-> [s \in Ids(M) |-> LogAdd(MaskedLog(pi[s]), MaskedLog(l[0][s]))],
          phi |-> [s \in Ids(M) |-> 0]]
    ELSE LET prev == ViterbiAtTransposed(n - 1, P, pi, l, M).delta
             cand == [s \in Ids(M) |-> [t \in Ids(M) |->
                         LogAdd(prev[t], MaskedLog(P[s][t]))]]
         IN  [delta |-> [s \in Ids(M) |->
                           LogAdd(MaskedLog(l[n][s]), MaxVec(cand[s], M))],
              phi |-> [s \in Ids(M) |-> ArgMax(cand[s], M)]]

\* the recurrence of log_viterbi_internals: delta[n, :] and phi[n, :]
RECURSIVE ViterbiAt(_, _, _, _, _)
ViterbiAt(n, P, pi, l, M) ==
    IF n = 0
    THEN [delta |-> [s \in Ids(M) |-> LogAdd(MaskedLog(pi[s]), MaskedLog(l[0][s]))],
          phi |-> [s \in Ids(M) |-> 0]]
    ELSE LET prev == ViterbiAt(n - 1, P, pi, l, M).delta
             cand == [s \in Ids(M) |-> [t \in Ids(M) |->
                         LogAdd(prev[t], MaskedLog(P[t][s]))]]
         IN  [delta |-> [s \in Ids(M) |->
                           LogAdd(MaskedLog(l[n][s]), MaxVec(cand[s], M))],
              phi |-> [s \in Ids(M) |-> ArgMax(cand[s], M)]]

RECURSIVE Backtrack(_, _, _, _)
Backtrack(n, N, rows, M) ==
    IF n = N - 1
    THEN ArgMax(rows[N - 1].delta, M)
    ELSE rows[n + 1].phi[Backtrack(n + 1, N, rows, M)]

\* log_viterbi_internals: the state-id path q_star, as a sequence of length N
log_viterbi_internals(N, P, pi, l, M) ==
    LET rows == [n \in Ids(N) |-> ViterbiAt(n, P, pi, l, M)]
    IN  [n \in 1 .. N |-> Backtrack(n - 1, N, rows, M)]

(***************************************************************************)
(* The model object.                                                       *)
(***************************************************************************)
VARIABLES
    kind,       \* the class: "generic", "discrete" or "gaussian"
    M,          \* len(states)
    K,          \* len(symbols): the size of the observation alphabet
    cb,         \* the callbacks held by the three adapters
    P,          \* self.P
    b,          \* self.emission_probability._b (discrete models)
    attrs,      \* the instance attributes that exist (hasattr)
    c,          \* self.c
    alpha,      \* self.alpha
    beta,       \* self.beta
    gamma,      \* self.gamma
    ksi,        \* self.ksi
    selfb,      \* self.b, set by baum_welch
    selfpi,     \* self.pi, set by baum_welch
    pc,         \* "idle", or the line baum_welch has reached
    bw,         \* the locals of the running baum_welch call
    ret,        \* the outcome of the last completed call
    calls,      \* the number of calls made so far
    lastFwd,    \* history: the sequence of the most recent forward pass
    hist        \* history of the latest baum_welch call: the parameters it started
                \* from and how often it has written each parameter

vars == <<kind, M, K, cb, P, b, attrs, c, alpha, beta, gamma, ksi, selfb, selfpi,
          pc, bw, ret, calls, lastFwd, hist>>

\* the models that are built: the class, len(states), len(symbols), the callbacks.
\* For the Gaussian class the emission callback stands for the state's density
\* over the observation alphabet (positive everywhere).
Configs ==
    [kind : {"discrete"}, M : {2}, K : {2}, transition : {"uniform", "upper"},
     emission : {"diag", "exclusive"}, initial : {"uniform", "first"}]
    \cup
    [kind : {"generic"}, M : {2}, K : {2}, transition : {"uniform"},
     emission : {"diag", "exclusive"}, initial : {"uniform", "first"}]
    \cup
    [kind : {"discrete"}, M : {3}, K : {2}, transition : {"uniform"},
     emission : {"diag"}, initial : {"uniform"}]
    \cup
    [kind : {"generic", "discrete", "gaussian"}, M : {2}, K : {2},
     transition : {"uniform", "deadrow"}, emission : {"diag"}, initial : {"uniform"}]

\* observation sequences of length 1..MaxLen over K symbols
Seqs(k) == UNION {[1 .. n -> Ids(k)] : n \in 1 .. MaxLen}

\* batches of 0..MaxBatch sequences
Batches(k) == UNION {[1 .. e -> Seqs(k)] : e \in 0 .. MaxBatch}

\* no value: an attribute that does not exist, or None
None == <<>>

\* no outcome: nothing has been called yet, or the call is still running
NoCall == [op |-> "none", arg |-> None, err |-> "none", val |-> None]

\* the locals of baum_welch when no call is running
BWIdle == [zs |-> <<>>, i |-> 0, w |-> <<>>, PU |-> None, PL |-> None, LU |-> None,
           LL |-> None, pis |-> None]

\* the history before the first baum_welch call
NoHist == [zs |-> <<>>, P0 |-> None, b0 |-> None, pi0 |-> None,
           wP |-> 0, wB |-> 0, wPi |-> 0]

\* the three constructors: HiddenMarkovModel.__init__, DiscreteHiddenMarkovModel.__init__,
\* GaussianHiddenMarkovModel.__init__
Init ==
    /\ \E cf \in Configs :
          /\ kind = cf.kind /\ M = cf.M /\ K = cf.K
          /\ cb = [transition |-> cf.transition, emission |-> cf.emission,
                   initial |-> cf.initial]
    /\ P = BuildP(cb.transition, M)
    /\ b = IF kind = "discrete" THEN BuildB(cb.emission, K, M) ELSE None
    /\ attrs = IF kind = "gaussian" THEN {"alpha", "beta", "ksi", "gamma"} ELSE {}
    /\ c = None /\ alpha = None /\ beta = None /\ gamma = None /\ ksi = None
    /\ selfb = None /\ selfpi = None
    /\ pc = "idle" /\ bw = BWIdle /\ ret = NoCall /\ calls = 0 /\ lastFwd = None
    /\ hist = NoHist

\* the parameters a pass reads: self.P, the initial callback, the emission model
CurPi == evaluate_initial_probabilities(cb.initial, M)
CurL(z) == evaluate_emission_probabilities(kind, cb.emission, b, z, M)
CurForward(z) == forward_algorithm_internals(Len(z), P, CurL(z), CurPi, M)

CanCall == pc = "idle" /\ calls < MaxCalls

\* forward_algorithm(z): stores c and alpha, returns nothing
forward_algorithm(z) ==
    /\ CanCall
    /\ LET f == CurForward(z)
       IN  /\ c' = f.c
           /\ alpha' = f.alpha
    /\ attrs' = attrs \cup {"c", "alpha"}
    /\ lastFwd' = z
    /\ ret' = [op |-> "forward_algorithm", arg |-> z, err |-> "none", val |-> None]
    /\ calls' = calls + 1
    /\ UNCHANGED <<kind, M, K, cb, P, b, beta, gamma, ksi, selfb, selfpi, pc, bw, hist>>

\* backward_algorithm(z): asserts that self.c exists, then reads it
backward_algorithm(z) ==
    /\ CanCall
    /\ calls' = calls + 1
    /\ IF "c" \notin attrs
       THEN /\ ret' = [op |-> "backward_algorithm", arg |-> z,
                       err |-> "AssertionError", val |-> None]
            /\ UNCHANGED <<beta, attrs>>
       ELSE IF BackwardIndexError(Len(z), c)
       THEN /\ ret' = [op |-> "backward_algorithm", arg |-> z,
                       err |-> "IndexError", val |-> None]
            /\ UNCHANGED <<beta, attrs>>
       ELSE /\ beta' = backward_algorithm_internals(Len(z), P, CurL(z), c, M)
            /\ attrs' = attrs \cup {"beta"}
            /\ ret' = [op |-> "backward_algorithm", arg |-> z, err |-> "none",
                       val |-> None]
    /\ UNCHANGED <<kind, M, K, cb, P, b, c, alpha, gamma, ksi, selfb, selfpi, pc, bw,
                   lastFwd, hist>>

\* what forward_backward_algorithm(z) stores: c, alpha, beta, gamma, ksi
ForwardBackward(z) ==
    LET N == Len(z)
        l == CurL(z)
        f == CurForward(z)
        bt == backward_algorithm_internals(N, P, l, f.c, M)
    IN  [c |-> f.c, alpha |-> f.alpha, beta |-> bt,
         gamma |-> calculate_gamma(f.alpha, bt, M),
         ksi |-> calculate_ksi(N, P, l, f.alpha, bt, M)]

\* forward_backward_algorithm(z)
forward_backward_algorithm(z) ==
    /\ CanCall
    /\ LET fb == ForwardBackward(z)
       IN  /\ c' = fb.c
           /\ alpha' = fb.alpha
           /\ beta' = fb.beta
           /\ gamma' = fb.gamma
           /\ ksi' = fb.ksi
    /\ attrs' = attrs \cup {"c", "alpha", "beta", "gamma", "ksi"}
    /\ lastFwd' = z
    /\ ret' = [op |-> "forward_backward_algorithm", arg |-> z, err |-> "none",
               val |-> None]
    /\ calls' = calls + 1
    /\ UNCHANGED <<kind, M, K, cb, P, b, selfb, selfpi, pc, bw, hist>>

\* the value observation_log_probability returns after its forward pass: -np.sum(self.c)
LogProbabilityOf(cvec) == Neg(SumVec(cvec))

\* observation_log_probability(z)
observation_log_probability(z) ==
    /\ CanCall
    /\ LET f == CurForward(z)
       IN  /\ c' = f.c
           /\ alpha' = f.alpha
           /\ ret' = [op |-> "observation_log_probability", arg |-> z, err |-> "none",
                      val |-> LogProbabilityOf(f.c)]
    /\ attrs' = attrs \cup {"c", "alpha"}
    /\ lastFwd' = z
    /\ calls' = calls + 1
    /\ UNCHANGED <<kind, M, K, cb, P, b, beta, gamma, ksi, selfb, selfpi, pc, bw, hist>>

\* viterbi(z): the state-id path
viterbi(z) ==
    /\ CanCall
    /\ ret' = [op |-> "viterbi", arg |-> z, err |-> "none",
               val |-> log_viterbi_internals(Len(z), P, CurPi, CurL(z), M)]
    /\ calls' = calls + 1
    /\ UNCHANGED <<kind, M, K, cb, P, b, attrs, c, alpha, beta, gamma, ksi, selfb,
                   selfpi, pc, bw, lastFwd, hist>>

(***************************************************************************)
(* DiscreteHiddenMarkovModel.baum_welch, statement by statement.           *)
(***************************************************************************)
ZeroVec(n) == [s \in Ids(n) |-> Zero]
ZeroMat(r, n) == [k \in Ids(r) |-> ZeroVec(n)]

AddVec(u, v) == [s \in DOMAIN u |-> Add(u[s], v[s])]
AddMat(u, v) == [k \in DOMAIN u |-> AddVec(u[k], v[k])]
ScaleVec(u, w) == [s \in DOMAIN u |-> Mul(u[s], w)]
ScaleMat(u, w) == [k \in DOMAIN u |-> ScaleVec(u[k], w)]

\* np.sum(gamma, axis=0): over all N steps
SumOverTime(g, n) ==
    [s \in Ids(n) |-> SumTo([t \in DOMAIN g |-> g[t][s]], Cardinality(DOMAIN g))]

\* calculate_inner_transition_probability_sums: (sum of ksi, sum of gamma) over time
calculate_inner_transition_probability_sums(ks, g, n) ==
    [upper |-> [s \in Ids(n) |-> [t \in Ids(n) |->
                   SumTo([u \in DOMAIN ks |-> ks[u][s][t]], Cardinality(DOMAIN ks))]],
     lower |-> SumOverTime(g, n)]

\* calculate_inner_emission_probability_sums: gamma summed over the steps that
\* observed symbol k, and gamma summed over all steps
calculate_inner_emission_probability_sums(z, g, k, n) ==
    [upper |-> [o \in Ids(k) |-> [s \in Ids(n) |->
                   SumTo([t \in DOMAIN g |-> IF z[t + 1] = o THEN g[t][s] ELSE Zero],
                         Cardinality(DOMAIN g))]],
     lower |-> SumOverTime(g, n)]

\* np.max over a non-empty list (NaN if any entry is NaN)
NpMax(v) ==
    IF \E i \in DOMAIN v : IsNaN(v[i]) THEN NaN
    ELSE v[CHOOSE i \in DOMAIN v : \A j \in DOMAIN v : Leq(v[j], v[i])]

\* np.exp on the arguments whose exponential is an extended rational
ExpIsExact(x) == x \in {Zero, PosInf, NegInf, NaN}
Exp(x) ==
    CASE x = Zero -> One
      [] x = PosInf -> PosInf
      [] x = NegInf -> Zero
      [] x = NaN -> NaN

\* lines 397-399: the log-probability pass, and the arguments of np.exp
LogProbs(zs) == [i \in DOMAIN zs |-> LogProbabilityOf(CurForward(zs[i]).c)]
RevisedScalingArgs(lp) ==
    LET mx == NpMax(lp) IN [i \in DOMAIN lp |-> Sub(mx, lp[i])]

\* line 416: sum(P_uppers) / sum(P_lowers)[:, np.newaxis]
NewP(PU, PL, n) == [s \in Ids(n) |-> [t \in Ids(n) |-> Div(PU[s][t], PL[s])]]

\* line 417: sum(l_uppers) / sum(l_lowers)[:, np.newaxis], a (K, M) array divided
\* by an (M, 1) array: entry [k, s] is divided by entry k of the denominators,
\* and the shapes broadcast only when K = M (K, M >= 2)
NewB(LU, LL, k, n) == [o \in Ids(k) |-> [s \in Ids(n) |-> Div(LU[o][s], LL[o])]]

\* line 418: sum(pis) / E
NewPi(pis, E) == [s \in DOMAIN pis |-> Div(pis[s], Rat(E, 1))]

\* baum_welch(zs), lines 391-401.  The batch is one whose revised scalings are
\* extended rationals (every sequence has the same log-probability, or an
\* infinite or undefined one).
baum_welch_begin(zs) ==
    /\ CanCall
    /\ kind = "discrete"
    /\ calls' = calls + 1
    /\ IF Len(zs) = 0
       THEN /\ ret' = [op |-> "baum_welch", arg |-> zs, err |-> "ValueError",
                       val |-> None]
            /\ UNCHANGED <<c, alpha, attrs, lastFwd, pc, bw, hist>>
       ELSE LET args == RevisedScalingArgs(LogProbs(zs))
                f == CurForward(zs[Len(zs)])
            IN  /\ \A i \in DOMAIN zs : ExpIsExact(args[i])
                /\ c' = f.c
                /\ alpha' = f.alpha
                /\ attrs' = attrs \cup {"c", "alpha"}
                /\ lastFwd' = zs[Len(zs)]
                /\ pc' = "bw_sequences"
                /\ bw' = [zs |-> zs, i |-> 1,
                          w |-> [i \in DOMAIN zs |-> Exp(args[i])],
                          PU |-> ZeroMat(M, M), PL |-> ZeroVec(M),
                          LU |-> ZeroMat(K, M), LL |-> ZeroVec(M),
                          pis |-> ZeroVec(M)]
                /\ hist' = [zs |-> zs, P0 |-> P, b0 |-> b, pi0 |-> selfpi,
                            wP |-> 0, wB |-> 0, wPi |-> 0]
                /\ ret' = NoCall
    /\ UNCHANGED <<kind, M, K, cb, P, b, beta, gamma, ksi, selfb, selfpi>>

\* lines 402-414: one sequence of the batch, but for the parameters
baum_welch_sequence_body ==
    /\ pc = "bw_sequences"
    /\ bw.i <= Len(bw.zs)
    /\ LET z == bw.zs[bw.i]
           fb == ForwardBackward(z)
           tr == calculate_inner_transition_probability_sums(fb.ksi, fb.gamma, M)
           em == calculate_inner_emission_probability_sums(z, fb.gamma, K, M)
       IN  /\ c' = fb.c
           /\ alpha' = fb.alpha
           /\ beta' = fb.beta
           /\ gamma' = fb.gamma
           /\ ksi' = fb.ksi
           /\ lastFwd' = z
           /\ bw' = [bw EXCEPT !.i = @ + 1,
                               !.PU = AddMat(@, ScaleMat(tr.upper, bw.w[bw.i])),
                               !.PL = AddVec(@, ScaleVec(tr.lower, bw.w[bw.i])),
                               !.LU = AddMat(@, em.upper),
                               !.LL = AddVec(@, em.lower),
                               !.pis = AddVec(@, fb.gamma[0])]
    /\ attrs' = attrs \cup {"c", "alpha", "beta", "gamma", "ksi"}
    /\ UNCHANGED <<kind, M, K, cb, b, selfb, selfpi, pc, ret, calls>>

\* a baum_welch that updated P after every sequence (an online update)
baum_welch_sequence_online ==
    /\ baum_welch_sequence_body
    /\ P' = NewP(bw'.PU, bw'.PL, M)
    /\ hist' = [hist EXCEPT !.wP = @ + 1]

\* lines 402-414: one sequence of the batch; no parameter is touched
baum_welch_sequence ==
    /\ baum_welch_sequence_body
    /\ UNCHANGED <<P, hist>>

\* line 416
baum_welch_write_P ==
    /\ pc = "bw_sequences"
    /\ bw.i > Len(bw.zs)
    /\ P' = NewP(bw.PU, bw.PL, M)
    /\ hist' = [hist EXCEPT !.wP = @ + 1]
    /\ pc' = "bw_write_b"
    /\ UNCHANGED <<kind, M, K, cb, b, attrs, c, alpha, beta, gamma, ksi, selfb, selfpi,
                   bw, ret, calls, lastFwd>>

\* line 417: raises when the shapes do not broadcast
baum_welch_write_b ==
    /\ pc = "bw_write_b"
    /\ IF K # M
       THEN /\ pc' = "idle"
            /\ bw' = BWIdle
            /\ ret' = [op |-> "baum_welch", arg |-> bw.zs, err |-> "ValueError",
                       val |-> None]
            /\ UNCHANGED <<selfb, attrs>>
       ELSE /\ selfb' = NewB(bw.LU, bw.LL, K, M)
            /\ attrs' = attrs \cup {"b"}
            /\ pc' = "bw_write_pi"
            /\ UNCHANGED <<bw, ret>>
    /\ UNCHANGED <<kind, M, K, cb, P, b, c, alpha, beta, gamma, ksi, selfpi, calls,
                   lastFwd, hist>>

\* line 418
baum_welch_write_pi ==
    /\ pc = "bw_write_pi"
    /\ selfpi' = NewPi(bw.pis, Len(bw.zs))
    /\ attrs' = attrs \cup {"pi"}
    /\ hist' = [hist EXCEPT !.wPi = @ + 1]
    /\ pc' = "bw_write_emission"
    /\ UNCHANGED <<kind, M, K, cb, P, b, c, alpha, beta, gamma, ksi, selfb, bw, ret,
                   calls, lastFwd>>

\* line 420, and the return
baum_welch_write_emission ==
    /\ pc = "bw_write_emission"
    /\ b' = selfb
    /\ hist' = [hist EXCEPT !.wB = @ + 1]
    /\ pc' = "idle"
    /\ bw' = BWIdle
    /\ ret' = [op |-> "baum_welch", arg |-> bw.zs, err |-> "none", val |-> None]
    /\ UNCHANGED <<kind, M, K, cb, P, attrs, c, alpha, beta, gamma, ksi, selfb, selfpi,
                   calls, lastFwd>>

(***************************************************************************)
(* Gaussian reestimation.                                                  *)
(***************************************************************************)
\* learn_from_sequence(zs), as far as it gets.  On the first sequence of the
\* batch it runs the forward and the backward pass and then calls
\* self.calculate_gamma() with no argument: calculate_gamma is a static method
\* of two parameters, so the call raises TypeError (line 529).  With an empty
\* batch the loop body never runs and line 538 divides sum([]) by sum([]), the
\* integers 0 and 0: ZeroDivisionError.
learn_from_sequence(zs) ==
    IF Len(zs) = 0
    THEN [err |-> "ZeroDivisionError", ran |-> FALSE, z |-> None, c |-> None,
          alpha |-> None, beta |-> None]
    ELSE LET z == zs[1]
             f == CurForward(z)
         IN  [err |-> "TypeError", ran |-> TRUE, z |-> z, c |-> f.c, alpha |-> f.alpha,
              beta |-> backward_algorithm_internals(Len(z), P, CurL(z), f.c, M)]

\* reestimate(zs, iterations): the loop calls learn_from_sequence(zs) and an
\* exception of the first pass leaves the loop; range(0) makes no pass at all
reestimate(zs, iterations) ==
    /\ CanCall
    /\ kind = "gaussian"
    /\ calls' = calls + 1
    /\ IF iterations = 0
       THEN /\ ret' = [op |-> "reestimate", arg |-> [zs |-> zs, iterations |-> 0],
                       err |-> "none", val |-> None]
            /\ UNCHANGED <<c, alpha, beta, attrs, lastFwd>>
       ELSE LET r == learn_from_sequence(zs)
            IN  /\ ret' = [op |-> "reestimate",
                           arg |-> [zs |-> zs, iterations |-> iterations],
                           err |-> r.err, val |-> None]
                /\ IF r.ran
                   THEN /\ c' = r.c
                        /\ alpha' = r.alpha
                        /\ beta' = r.beta
                        /\ attrs' = attrs \cup {"c", "alpha", "beta"}
                        /\ lastFwd' = r.z
                   ELSE UNCHANGED <<c, alpha, beta, attrs, lastFwd>>
    /\ UNCHANGED <<kind, M, K, cb, P, b, gamma, ksi, selfb, selfpi, pc, bw, hist>>

Next ==
    \/ \E z \in Seqs(K) : forward_algorithm(z)
    \/ \E z \in Seqs(K) : backward_algorithm(z)
    \/ \E z \in Seqs(K) : forward_backward_algorithm(z)
    \/ \E z \in Seqs(K) : observation_log_probability(z)
    \/ \E z \in Seqs(K) : viterbi(z)
    \/ \E zs \in Batches(K) : baum_welch_begin(zs)
    \/ baum_welch_sequence
    \/ baum_welch_write_P
    \/ baum_welch_write_b
    \/ baum_welch_write_pi
    \/ baum_welch_write_emission
    \/ \E zs \in Batches(K) : \E k \in 0 .. MaxIterations : reestimate(zs, k)

Spec == Init /\ [][Next]_vars

(***************************************************************************)
(* Vocabulary of the properties.                                           *)
(***************************************************************************)
FiniteVec(v) == \A s \in DOMAIN v : IsFinite(v[s])
FiniteMat(m) == \A k \in DOMAIN m : FiniteVec(m[k])

\* every row of the matrix sums to 1
RowStochastic(m) == \A s \in DOMAIN m : SumVec(m[s]) = One

\* every column of the K x M table sums to 1
ColumnStochastic(t, k, n) ==
    \A s \in Ids(n) : SumVec([o \in Ids(k) |-> t[o][s]]) = One

\* the transition callback gives every state a row with a non-zero sum
NoZeroRow == cb.transition # "deadrow"

\* the parameters the model was built with are still in place
NotReestimated == hist.wP = 0 /\ hist.wB = 0

\* the joint probability of the state path x (a sequence of ids) and the sequence z
Joint(x, z) ==
    LET l == CurL(z)
        step == [n \in 1 .. Len(z) |->
                    IF n = 1 THEN Mul(CurPi[x[1]], l[0][x[1]])
                    ELSE Mul(P[x[n - 1]][x[n]], l[n - 1][x[n]])]
        prod[n \in 0 .. Len(z)] == IF n = 0 THEN One ELSE Mul(prod[n - 1], step[n])
    IN  prod[Len(z)]

Paths(N) == [1 .. N -> Ids(M)]

\* the sum of Joint(x, z) over the paths x in S
RECURSIVE SumJoint(_, _)
SumJoint(S, z) ==
    IF S = {} THEN Zero
    ELSE LET x == CHOOSE y \in S : TRUE IN Add(Joint(x, z), SumJoint(S \ {x}, z))

\* the probability of z summed over all hidden-state paths
TotalProbability(z) == SumJoint(Paths(Len(z)), z)

\* the product of 1/c[n]
ScalingProduct(cvec) ==
    LET prod[n \in 0 .. Cardinality(DOMAIN cvec)] ==
            IF n = 0 THEN One ELSE Mul(prod[n - 1], Recip(cvec[n - 1]))
    IN  prod[Cardinality(DOMAIN cvec)]

\* the batch of the latest baum_welch call was valid: every sequence has at
\* least two observations (so that it has a transition to count) and a non-zero
\* probability under the parameters the call started from
BatchValid ==
    \A i \in DOMAIN hist.zs :
        LET z == hist.zs[i]
        IN  /\ Len(z) >= 2
            /\ FiniteVec(forward_algorithm_internals(Len(z), hist.P0,
                   evaluate_emission_probabilities(kind, cb.emission, hist.b0, z, M), CurPi, M).c)

\* no baum_welch call has been made, or the latest one ran to completion
NoCallOrCompleted == pc = "idle" /\ hist.wP = hist.wB

(***************************************************************************)
(* C1.  The transition matrix is row-stochastic after construction (for a  *)
(* callback with no all-zero row) and after every completed baum_welch     *)
(* call on a batch of valid sequences.  The matrices looked at are those   *)
(* with finite entries only: a state that no sequence of the batch ever    *)
(* occupies has a zero denominator, which is another matter.               *)
(***************************************************************************)
C1_RowStochastic ==
    (NoCallOrCompleted /\ NoZeroRow /\ BatchValid /\ FiniteMat(P))
        => RowStochastic(P)

(***************************************************************************)
(* C2.  Every column of the discrete emission table sums to 1, after       *)
(* construction and after every completed baum_welch call (tables with     *)
(* finite entries only, as for C1).                                        *)
(***************************************************************************)
C2_ColumnStochastic ==
    (NoCallOrCompleted /\ kind = "discrete" /\ NoZeroRow /\ BatchValid
        /\ FiniteMat(b))
        => ColumnStochastic(b, K, M)

(***************************************************************************)
(* C3.  observation_log_probability(z) returns r = -sum_n log c[n], the    *)
(* logarithm of the likelihood L = prod_n 1/c[n], and L is the probability *)
(* of z summed over all paths.  A logarithm is stated here by what every   *)
(* logarithm satisfies: r has the sign of L - 1, and 1 - 1/L <= r <= L - 1.*)
(***************************************************************************)
C3_LogLikelihood ==
    (ret.op = "observation_log_probability" /\ NoZeroRow /\ NotReestimated
        /\ FiniteVec(c))
    => LET L == ScalingProduct(c)
           r == ret.val
       IN  /\ L = TotalProbability(ret.arg)
           /\ Less(r, Zero) <=> Less(L, One)
           /\ r = Zero <=> L = One
           /\ Leq(Sub(One, Recip(L)), r)
           /\ Leq(r, Sub(L, One))

\* the part of C3 the code does satisfy: the scaling product is the likelihood
C3_ScalingProductIsLikelihood ==
    (ret.op = "observation_log_probability" /\ NoZeroRow /\ NotReestimated
        /\ FiniteVec(c))
    => ScalingProduct(c) = TotalProbability(ret.arg)

(***************************************************************************)
(* C4.  viterbi(z) returns a path of length N of maximal joint probability *)
(* among all M^N paths; with a uniform transition matrix and initial       *)
(* distribution and the emission of observation i strictly largest in      *)
(* state i, it returns z itself.                                           *)
(***************************************************************************)
ParamsFinite(z) == FiniteMat(P) /\ FiniteVec(CurPi) /\ FiniteMat(CurL(z))

UniformScenario ==
    /\ K <= M
    /\ \A s \in Ids(M) : CurPi[s] = Rat(1, M)
    /\ \A s \in Ids(M) : \A t \in Ids(M) : P[s][t] = Rat(1, M)
    /\ \A o \in Ids(K) : \A s \in Ids(M) \ {o} :
           Less(EvalEmission(kind, cb.emission, b, o, s),
                EvalEmission(kind, cb.emission, b, o, o))

C4_ViterbiMaximal ==
    (ret.op = "viterbi" /\ ParamsFinite(ret.arg))
    => /\ ret.val \in Paths(Len(ret.arg))
       /\ \A x \in Paths(Len(ret.arg)) :
              Leq(Joint(x, ret.arg), Joint(ret.val, ret.arg))
       /\ UniformScenario => ret.val = ret.arg

C4_Witness ==
    /\ ret.op = "viterbi"
    /\ UniformScenario
    /\ ret.arg = <<1, 0>>
    /\ ret.val = <<1, 0>>

(***************************************************************************)
(* C5.  forward_algorithm(z) yields to its caller the likelihood of z, a   *)
(* number p with 0 < p <= 1, when no step of z has zero probability.       *)
(***************************************************************************)
C5_ForwardYieldsLikelihood ==
    (ret.op = "forward_algorithm" /\ NoZeroRow /\ NotReestimated /\ FiniteVec(c))
    => /\ ret.val # None
       /\ Less(Zero, ret.val)
       /\ Leq(ret.val, One)

(***************************************************************************)
(* C6.  backward_algorithm(z) fails unless the most recent forward pass on *)
(* the model was run on the same sequence z.                               *)
(***************************************************************************)
C6_BackwardNeedsSameForward ==
    (ret.op = "backward_algorithm" /\ lastFwd # ret.arg) => ret.err # "none"

(***************************************************************************)
(* C7.  No constructor produces a model whose P holds an undefined entry.  *)
(***************************************************************************)
C7_ConstructedPDefined == calls = 0 => FiniteMat(P)

(***************************************************************************)
(* C8.  A forward pass that meets a zero raw sum never stores a scaling    *)
(* vector c or a table alpha with an infinite or undefined entry.          *)
(***************************************************************************)
C8_NoUndefinedForward ==
    (NoZeroRow /\ NotReestimated /\ "c" \in attrs)
        => FiniteVec(c) /\ FiniteMat(alpha)

C10_PosteriorsConsistent ==
    (ret.op = "forward_backward_algorithm" /\ Len(ret.arg) >= 2 /\ FiniteVec(c))
    => /\ \A n \in DOMAIN gamma : SumVec(gamma[n]) = One
       /\ \A n \in DOMAIN ksi :
              SumVec([s \in Ids(M) |-> SumVec(ksi[n][s])]) = One
       /\ DOMAIN ksi = Ids(Len(ret.arg) - 1)
       /\ \A n \in DOMAIN ksi : \A s \in Ids(M) : SumVec(ksi[n][s]) = gamma[n][s]

C10_Witness ==
    /\ ret.op = "forward_backward_algorithm" /\ Len(ret.arg) = 2 /\ FiniteVec(c)
    /\ hist.wP = 1
    /\ \E s \in Ids(M) : Less(Zero, gamma[0][s]) /\ Less(gamma[0][s], One)

(***************************************************************************)
(* C11.  reestimate(zs, iterations = k) on a non-empty batch of valid      *)
(* sequences runs its k passes to completion and then returns (it does not *)
(* raise).                                                                 *)
(***************************************************************************)
C11_ReestimateCompletes ==
    (ret.op = "reestimate" /\ Len(ret.arg.zs) >= 1 /\ NoZeroRow
        /\ \A i \in DOMAIN ret.arg.zs :
               FiniteVec(CurForward(ret.arg.zs[i]).c))
    => ret.err = "none"

(***************************************************************************)
(* C12.  After a completed baum_welch call the initial distribution of     *)
(* every later pass is the reestimated one, the batch average of           *)
(* gamma[0, :] that the call stored, and not the constructor's callback:   *)
(* a later forward pass stores the c and alpha computed from it.           *)
(***************************************************************************)
C12_ReestimatedPiUsed ==
    (ret.op = "forward_algorithm" /\ pc = "idle" /\ hist.wPi = 1 /\ hist.wB = 1
        /\ NoZeroRow /\ BatchValid /\ FiniteVec(selfpi) /\ FiniteMat(P)
        /\ FiniteMat(b))
    => LET f == forward_algorithm_internals(Len(ret.arg), P, CurL(ret.arg), selfpi, M)
       IN  c = f.c /\ alpha = f.alpha

(***************************************************************************)
(* C13.  The parameter update of baum_welch is atomic: when a call on a    *)
(* non-empty batch of valid sequences has ended, by returning or by        *)
(* raising, P and the emission table that emission evaluation reads are    *)
(* both the ones the call started with, or both have been replaced.        *)
(***************************************************************************)
C13_AtomicUpdate ==
    (ret.op = "baum_welch" /\ pc = "idle" /\ Len(ret.arg) >= 1 /\ ret.arg = hist.zs
        /\ NoZeroRow /\ BatchValid)
    => \/ P = hist.P0 /\ b = hist.b0 /\ hist.wP = 0 /\ hist.wB = 0
       \/ hist.wP = 1 /\ hist.wB = 1

====
